---- MODULE Spec2Model ----
(***************************************************************************)
(* Model of the node executor of dagu (internal/scheduler/node.go): one    *)
(* Node, the worker that drives it through setup / Execute / teardown      *)
(* cycles, and the signal bridge that calls signal() and cancel() on it    *)
(* at any moment (Spec); the allocation of node ids by Node.init on        *)
(* concurrent workers (IdSpec); and the graph scheduler that admits the    *)
(* nodes of a DAG, propagates their outcomes and cancels a run             *)
(* (GraphSpec).                                                            *)
(***************************************************************************)
EXTENDS Integers, Sequences, FiniteSets, TLC

\* ------------------------------------------------------------------ bounds
MaxCycles == 2          \* setup/Execute/teardown cycles of the node in a run
MaxNodes == 3           \* nodes whose init runs on concurrent workers
MaxSteps == 3           \* steps of a DAG

\* --------------------------------------------------------------- constants
Nil == "nil"            \* the nil error
Unset == "unset"        \* an environment variable that is not set
NilH == <<>>            \* a nil *os.File / *bufio.Writer
NoCmd == [ctx |-> 0, path |-> <<>>, args |-> <<>>, Process |-> 0]
                        \* a nil *exec.Cmd; Process 0 is a nil *os.Process
NoProc == [pid |-> 0, ctx |-> 0, alive |-> FALSE, env |-> {}, stdout |-> {},
           stderr |-> {}]

\* NodeStatus (node.go:24-31)
NodeStatus_None == "None"
NodeStatus_Running == "Running"
NodeStatus_Error == "Error"
NodeStatus_Cancel == "Cancel"
NodeStatus_Success == "Success"
NodeStatus_Skipped == "Skipped"

\* ------------------------------------------------------------ text helpers
\* Strings are sequences of characters; " " and "\n" are the white space.
IsSpace(c) == c \in {" ", "\n"}

RECURSIVE TrimLeft(_)
TrimLeft(s) ==
    IF s = <<>> THEN <<>>
    ELSE IF IsSpace(Head(s)) THEN TrimLeft(Tail(s)) ELSE s

RECURSIVE TrimRight(_)
TrimRight(s) ==
    IF s = <<>> THEN <<>>
    ELSE IF IsSpace(s[Len(s)]) THEN TrimRight(SubSeq(s, 1, Len(s) - 1)) ELSE s

\* strings.TrimSpace (node.go:132)
TrimSpace(s) == TrimRight(TrimLeft(s))

\* os.ExpandEnv (node.go:88): a "$X" item is replaced by the value of X in
\* the process environment, an unset name expands to the empty string.
RECURSIVE ExpandEnv(_, _)
ExpandEnv(s, e) ==
    IF s = <<>> THEN <<>>
    ELSE LET h == Head(s)
             v == IF h = "$X"
                  THEN (IF e["X"] = Unset THEN <<>> ELSE e["X"])
                  ELSE <<h>>
         IN v \o ExpandEnv(Tail(s), e)

\* the words of a string, split at white space
RECURSIVE Fields(_, _, _)
Fields(s, cur, acc) ==
    IF s = <<>> THEN (IF cur = <<>> THEN acc ELSE Append(acc, cur))
    ELSE IF IsSpace(Head(s))
         THEN Fields(Tail(s), <<>>, IF cur = <<>> THEN acc ELSE Append(acc, cur))
         ELSE Fields(Tail(s), Append(cur, Head(s)), acc)

\* utils.SplitCommand (node.go:88): (command, args) of a command line
SplitCommand(s) ==
    LET w == Fields(s, <<>>, <<>>)
    IN IF w = <<>> THEN [command |-> <<>>, args |-> <<>>]
       ELSE [command |-> Head(w), args |-> Tail(w)]

\* ------------------------------------------------------------------- state
VARIABLES
    step,           \* *config.Step: the declared step (immutable fields)
    Command, Args,  \* Step.Command, Step.Args (Execute assigns them)
    Status, Error, RetryCount, DoneCount,   \* NodeState
    cmd,            \* Node.cmd
    cancelFunc,     \* Node.cancelFunc: 0 (nil) or the context it cancels
    logFile, logWriter, stdoutFile, stdoutWriter,
    outputWriter, outputReader, scriptFile,
    done,           \* Node.done
    env,            \* the process environment (os.Setenv / os.ExpandEnv)
    openFiles,      \* file handles the process holds open
    disk,           \* temporary script files present in the file system
    flushed,        \* writers teardown has called Flush on
    synced,         \* files teardown has called Sync on
    sinks,          \* what each sink received from the last child
    pipeBuf,        \* bytes in the captured-output pipe
    proc,           \* the last child process (NoProc: none yet)
    sent,           \* kill(2) calls made: sequence of [target, cycle]
    canceledCtx,    \* contexts whose cancel function was called
    nCtx,           \* contexts created so far
    pc,             \* position of the worker
    cycle,          \* number of setup calls so far
    ret,            \* return value of the last setup / Execute / teardown
    lastStdout,     \* stdout the last child with a capture pipe wrote
    lastExit,       \* how the last cycle went: no setup, no spawn, child exit
    panicked,       \* the process died of a nil dereference
    tdFails,        \* the flush/sync calls that failed in the last teardown
    cancelCalled    \* cancel() was called since the node became Running

nodeVars == <<Command, Args, Status, Error, RetryCount, DoneCount, cmd,
              cancelFunc, logFile, logWriter, stdoutFile, stdoutWriter,
              outputWriter, outputReader, scriptFile, done>>
osVars == <<env, openFiles, disk, flushed, synced, sinks, pipeBuf, proc, sent,
            canceledCtx, nCtx>>
runVars == <<pc, cycle, ret, lastStdout, lastExit, panicked, tdFails,
             cancelCalled>>

VARIABLES
    nextNodeId,     \* the process-wide id counter (node.go:316)
    id,             \* Node.id of every node
    ipc,            \* position of the worker that runs init on a node
    reg             \* the value of nextNodeId that worker has loaded

idVars == <<nextNodeId, id, ipc, reg>>

VARIABLES
    dag,            \* the DAG of the run: depends, continueOn, maxActiveRuns
    nstatus,        \* NodeState.Status of every node of the DAG
    nphase,         \* how far the worker of every node has come
    forced,         \* the nodes the propagation rule made Skipped
    runCanceled,    \* an external cancel was issued
    atCancel,       \* the nodes that were Running when it was issued
    crashed,        \* the process died of a nil dereference
    runStatus,      \* the status of the run, once it is computed
    hpc,            \* the scheduler: running nodes, handlers, exit, done
    hresult         \* the handlers run so far and how each ended

finalVars == <<runStatus, hpc, hresult>>
graphVars == <<dag, nstatus, nphase, forced, runCanceled, atCancel, crashed,
               finalVars>>

execVars == <<step, nodeVars, osVars, runVars>>
vars == <<execVars, idVars, graphVars>>

\* the steps the model runs
\* retry and repeat policies: one retry, or repeat without retry
Policies == { [RetryLimit |-> 1, Repeat |-> FALSE],
              [RetryLimit |-> 0, Repeat |-> TRUE] }

Steps ==
    { [Script |-> sc, Stdout |-> so, Output |-> ou, Variables |-> va,
       CmdWithArgs |-> cw, Command |-> <<"c">>, Args |-> << <<"a">> >>,
       RetryLimit |-> po.RetryLimit, Repeat |-> po.Repeat] :
        sc \in BOOLEAN, so \in BOOLEAN, ou \in {"", "X"},
        va \in {<<>>, << <<"V", <<"1">>>> >>},
        cw \in {<<>>, <<"e", " ", "$X">>},
        po \in Policies }

SinkNames == {"os.Stdout", "log", "redirect", "pipe"}

\* the node before the scheduler has touched it
InitNode ==
    /\ Command = step.Command
    /\ Args = step.Args
    /\ Status = NodeStatus_None
    /\ Error = Nil
    /\ RetryCount = 0
    /\ DoneCount = 0
    /\ cmd = NoCmd
    /\ cancelFunc = 0
    /\ logFile = NilH /\ logWriter = NilH
    /\ stdoutFile = NilH /\ stdoutWriter = NilH
    /\ outputWriter = NilH /\ outputReader = NilH
    /\ scriptFile = NilH
    /\ done = FALSE
    /\ env = [n \in {"X", "P"} |-> IF n = "P" THEN <<"p">> ELSE <<"o">>]
    /\ openFiles = {}
    /\ disk = {}
    /\ flushed = {}
    /\ synced = {}
    /\ sinks = [s \in SinkNames |-> {}]
    /\ pipeBuf = <<>>
    /\ proc = NoProc
    /\ sent = <<>>
    /\ canceledCtx = {}
    /\ nCtx = 0
    /\ pc = "idle"
    /\ cycle = 0
    /\ ret = Nil
    /\ lastStdout = <<>>
    /\ lastExit = Nil
    /\ panicked = FALSE
    /\ tdFails = {}
    /\ cancelCalled = FALSE

\* the nodes Node.init runs on
IdNodes == 1..MaxNodes

\* node.go:316 and the zero value of Node.id
InitIds ==
    /\ nextNodeId = 1
    /\ id = [n \in IdNodes |-> 0]
    /\ ipc = [n \in IdNodes |-> "call"]
    /\ reg = [n \in IdNodes |-> 0]

\* the DAGs the scheduler runs: steps in declared order, as a chain, a join
\* into the last step or a fork from the first; every step with its
\* continueOn, the DAG with its maxActiveRuns
GraphNodes == 1..MaxSteps

Shapes ==
    { [v \in GraphNodes |-> IF v = 1 THEN {} ELSE {v - 1}],
      [v \in GraphNodes |-> IF v = MaxSteps THEN 1..(v - 1) ELSE {}],
      [v \in GraphNodes |-> IF v = 1 THEN {} ELSE {1}] }

ContinueOns == { [failure |-> FALSE, skipped |-> FALSE],
                 [failure |-> TRUE, skipped |-> FALSE],
                 [failure |-> FALSE, skipped |-> TRUE] }

Dags ==
    { [depends |-> sh, continueOn |-> co, maxActiveRuns |-> m] :
        sh \in Shapes, co \in [GraphNodes -> ContinueOns], m \in {1, 2} }

\* the run before the scheduler has admitted a node
InitGraph ==
    /\ nstatus = [v \in GraphNodes |-> NodeStatus_None]
    /\ nphase = [v \in GraphNodes |-> "idle"]
    /\ forced = {}
    /\ runCanceled = FALSE
    /\ atCancel = {}
    /\ crashed = FALSE
    /\ runStatus = NodeStatus_None
    /\ hpc = "run"
    /\ hresult = <<>>

\* the step and the DAG of the specifications that leave them at rest
RestStep == CHOOSE s \in Steps : TRUE
RestDag == CHOOSE d \in Dags : TRUE

Init ==
    /\ step \in Steps
    /\ InitNode
    /\ InitIds
    /\ dag = RestDag
    /\ InitGraph

\* a file handle: what it is and the cycle that opened it
H(kind, c) == <<kind, c>>

\* ------------------------------------------------------- worker: admission
\* Node.updateStatus (node.go:174-178)
updateStatus(status) == Status' = status

\* the scheduler admits the node: it becomes Running, the worker starts
Start ==
    /\ pc = "idle" /\ ~panicked
    /\ updateStatus(NodeStatus_Running)
    /\ pc' = "setup"
    /\ cancelCalled' = FALSE
    /\ UNCHANGED <<idVars, graphVars, step, Command, Args, Error, RetryCount, DoneCount, cmd,
                   cancelFunc, logFile, logWriter, stdoutFile, stdoutWriter,
                   outputWriter, outputReader, scriptFile, done, osVars,
                   cycle, ret, lastStdout, lastExit, panicked, tdFails>>

\* ------------------------------------------------------------------- setup
\* the places where setup can fail
SetupFailures(st) ==
    {"none", "log"}
        \cup (IF st.Stdout THEN {"stdout"} ELSE {})
        \cup (IF st.Script THEN {"mktemp", "write", "sync"} ELSE {})

\* Node.setupLog (node.go:259-271)
setupLog(f, c) ==
    IF f = "log"
    THEN [err |-> "E_setupLog", file |-> NilH, writer |-> logWriter, open |-> {}]
    ELSE [err |-> Nil, file |-> H("log", c), writer |-> H("log", c),
          open |-> {H("log", c)}]

\* Node.setupStdout (node.go:242-257)
setupStdout(f, c) ==
    IF ~step.Stdout
    THEN [err |-> Nil, file |-> stdoutFile, writer |-> stdoutWriter, open |-> {}]
    ELSE IF f = "stdout"
    THEN [err |-> "E_setupStdout", file |-> NilH, writer |-> stdoutWriter,
          open |-> {}]
    ELSE [err |-> Nil, file |-> H("redirect", c), writer |-> H("redirect", c),
          open |-> {H("redirect", c)}]

\* Node.setupScript (node.go:228-240)
setupScript(f, c) ==
    IF ~step.Script
    THEN [err |-> Nil, file |-> scriptFile, open |-> {}, disk |-> {}]
    ELSE IF f = "mktemp"      \* CreateTemp failed: WriteString on a nil file
    THEN [err |-> "E_script", file |-> NilH, open |-> {}, disk |-> {}]
    ELSE IF f = "write"       \* returns before the deferred Close exists
    THEN [err |-> "E_script", file |-> H("script", c),
          open |-> {H("script", c)}, disk |-> {H("script", c)}]
    ELSE IF f = "sync"
    THEN [err |-> "E_script", file |-> H("script", c), open |-> {},
          disk |-> {H("script", c)}]
    ELSE [err |-> Nil, file |-> H("script", c), open |-> {},
          disk |-> {H("script", c)}]

\* Node.setup (node.go:206-226)
setup ==
    /\ pc = "setup" /\ ~panicked
    /\ \E f \in SetupFailures(step) :
        LET c == cycle + 1
            l == setupLog(f, c)
            s == IF l.err = Nil THEN setupStdout(f, c)
                 ELSE [err |-> Nil, file |-> stdoutFile,
                       writer |-> stdoutWriter, open |-> {}]
            x == IF l.err = Nil /\ s.err = Nil THEN setupScript(f, c)
                 ELSE [err |-> Nil, file |-> scriptFile, open |-> {},
                       disk |-> {}]
            err == IF l.err # Nil THEN l.err
                   ELSE IF s.err # Nil THEN s.err ELSE x.err
        IN /\ cycle' = c
           /\ logFile' = l.file /\ logWriter' = l.writer
           /\ stdoutFile' = s.file /\ stdoutWriter' = s.writer
           /\ scriptFile' = x.file
           /\ openFiles' = openFiles \cup l.open \cup s.open \cup x.open
           /\ disk' = disk \cup x.disk
           /\ Error' = IF err # Nil THEN err ELSE Error
           /\ ret' = err
           /\ pc' = IF err = Nil THEN "exec" ELSE "setupfailed"
    /\ UNCHANGED <<idVars, graphVars, cancelCalled, step, Command, Args, Status, RetryCount, DoneCount, cmd,
                   cancelFunc, outputWriter, outputReader, done, env, flushed,
                   synced, sinks, pipeBuf, proc, sent, canceledCtx, nCtx,
                   lastStdout, lastExit, panicked, tdFails>>

\* the worker after a failed setup: the node terminates Error
HandleSetupError ==
    /\ pc = "setupfailed" /\ ~panicked
    /\ updateStatus(NodeStatus_Error)
    /\ lastExit' = "nosetup"
    /\ pc' = "teardown"
    /\ UNCHANGED <<idVars, graphVars, cancelCalled, step, Command, Args, Error, RetryCount, DoneCount, cmd,
                   cancelFunc, logFile, logWriter, stdoutFile, stdoutWriter,
                   outputWriter, outputReader, scriptFile, done, osVars,
                   cycle, ret, lastStdout, panicked, tdFails>>

\* ----------------------------------------------------------------- Execute
\* the outputs a child may write to its stdout
Stdouts == { <<>>, <<" ", "a", "\n">>, <<"a", " ", "b">> }

\* args of the command run (node.go:90-95): the script path goes last
EffectiveArgs(args, sf) ==
    IF sf # NilH THEN args \o <<sf>> ELSE args

\* a variant of StepArgsAfter: the script path appended to the step's slice
StepArgsAliased(args, sf) ==
    IF sf # NilH THEN args \o <<sf>> ELSE args

\* n.Args after node.go:90-95: the script path is appended to a fresh slice,
\* the step's own slice is left as it was
StepArgsAfter(args, sf) == args

\* cmd.Env (node.go:99): append to the nil slice of the fresh command
CmdEnv(variables) ==
    [isNil |-> variables = <<>>, list |-> variables]

\* the environment os/exec gives the child: cmd.Env, or the environment of
\* the parent process when cmd.Env is nil
ChildEnv(cenv, e) ==
    IF cenv.isNil
    THEN { <<n, e[n]>> : n \in { m \in DOMAIN e : e[m] # Unset } }
    ELSE { cenv.list[i] : i \in DOMAIN cenv.list }

\* cmd.Stderr (node.go:106-111)
StderrSinks(lw) ==
    IF lw # NilH THEN {"log"} ELSE {"os.Stdout"}

\* a variant of StdoutSinks: stdout redirected to the file instead of tee'd
StdoutSinksRedirected(lw, sw, out) ==
    LET base == IF lw # NilH THEN {"log"} ELSE {"os.Stdout"}
        tee == IF sw # NilH THEN {"redirect"} ELSE base
    IN IF out # "" THEN tee \cup {"pipe"} ELSE tee

\* cmd.Stdout (node.go:105-123)
StdoutSinks(lw, sw, out) ==
    LET base == IF lw # NilH THEN {"log"} ELSE {"os.Stdout"}
        tee == IF sw # NilH THEN {"log", "redirect"} ELSE base
    IN IF out # "" THEN tee \cup {"pipe"} ELSE tee

\* node.go:85-97: the context, the effective command, the command object
ExecPrepare ==
    /\ pc = "exec" /\ ~panicked
    /\ LET sp == SplitCommand(ExpandEnv(step.CmdWithArgs, env))
           command == IF step.CmdWithArgs # <<>> THEN sp.command ELSE Command
           args == IF step.CmdWithArgs # <<>> THEN sp.args ELSE Args
       IN /\ Command' = command
          /\ Args' = StepArgsAfter(args, scriptFile)
          /\ cmd' = [ctx |-> nCtx + 1, path |-> command,
                     args |-> EffectiveArgs(args, scriptFile),
                     Process |-> 0]
    /\ nCtx' = nCtx + 1
    /\ cancelFunc' = nCtx + 1
    /\ pc' = "spawn"
    /\ UNCHANGED <<idVars, graphVars, cancelCalled, step, Status, Error, RetryCount, DoneCount, logFile,
                   logWriter, stdoutFile, stdoutWriter, outputWriter,
                   outputReader, scriptFile, done, env, openFiles, disk,
                   flushed, synced, sinks, pipeBuf, proc, sent, canceledCtx,
                   cycle, ret, lastStdout, lastExit, panicked, tdFails>>

\* node.go:98-125: environment, output routing, the pipe, and the start of
\* the child by cmd.Run
ExecSpawn ==
    /\ pc = "spawn" /\ ~panicked
    /\ \E o \in {"ok", "pipefail", "startfail"} :
        IF o = "pipefail"
        THEN /\ step.Output # ""
             /\ outputReader' = NilH /\ outputWriter' = NilH
             /\ ret' = "E_pipe"
             /\ pc' = "executed"
             /\ lastExit' = "nospawn"
             /\ UNCHANGED <<openFiles, pipeBuf, Error, proc, cmd, sinks>>
        ELSE
          /\ IF step.Output # ""
             THEN /\ outputReader' = H("pipeR", cycle)
                  /\ outputWriter' = H("pipeW", cycle)
                  /\ openFiles' = openFiles \cup
                        {H("pipeR", cycle), H("pipeW", cycle)}
                  /\ pipeBuf' = <<>>
             ELSE UNCHANGED <<outputReader, outputWriter, openFiles, pipeBuf>>
          /\ IF o = "startfail"               \* Start: no such program
             THEN /\ Error' = "E_spawn"
                  /\ lastExit' = "nospawn"
                  /\ pc' = "finish"
                  /\ UNCHANGED <<proc, cmd, ret, sinks>>
             ELSE IF cmd.ctx \in canceledCtx  \* Start: the context is done
             THEN /\ Error' = "E_ctx"
                  /\ lastExit' = "nospawn"
                  /\ pc' = "finish"
                  /\ UNCHANGED <<proc, cmd, ret, sinks>>
             ELSE \* the child starts; its pid is the number of children
                  \* started so far
                  /\ sinks' = [k \in SinkNames |-> {}]
                  /\ proc' = [pid |-> proc.pid + 1, ctx |-> cmd.ctx,
                              alive |-> TRUE,
                              env |-> ChildEnv(CmdEnv(step.Variables), env),
                              stdout |-> StdoutSinks(logWriter, stdoutWriter,
                                                     step.Output),
                              stderr |-> StderrSinks(logWriter)]
                  /\ cmd' = [cmd EXCEPT !.Process = proc.pid + 1]
                  /\ lastExit' = "running"
                  /\ pc' = "wait"
                  /\ UNCHANGED <<Error, ret>>
    /\ UNCHANGED <<idVars, graphVars, cancelCalled, step, Command, Args, Status, RetryCount, DoneCount,
                   cancelFunc, logFile, logWriter, stdoutFile, stdoutWriter,
                   scriptFile, done, env, disk, flushed, synced, sent,
                   canceledCtx, nCtx, cycle, lastStdout, panicked, tdFails>>

\* node.go:125: cmd.Run returns when the child has ended
ExecWait ==
    /\ pc = "wait" /\ ~panicked
    /\ \E o \in {"exit0", "exit1", "killed"}, out \in Stdouts :
        /\ o \in {"exit0", "exit1"} => proc.ctx \notin canceledCtx
        /\ o = "killed" =>
              \/ proc.ctx \in canceledCtx
              \/ \E i \in DOMAIN sent : sent[i] = 0 - proc.pid
        /\ Error' = (CASE o = "exit0" -> Nil
                       [] o = "exit1" -> "E_exit"
                       [] o = "killed" -> "E_killed")
        /\ sinks' = [k \in SinkNames |->
                        (IF k \in proc.stdout THEN {"stdout"} ELSE {})
                        \cup (IF k \in proc.stderr THEN {"stderr"} ELSE {})]
        /\ pipeBuf' = IF "pipe" \in proc.stdout THEN out ELSE pipeBuf
        /\ lastStdout' = IF "pipe" \in proc.stdout THEN out ELSE lastStdout
        /\ lastExit' = o
    /\ proc' = [proc EXCEPT !.alive = FALSE]
    /\ pc' = "finish"
    /\ UNCHANGED <<idVars, graphVars, cancelCalled, step, Command, Args, Status, RetryCount, DoneCount, cmd,
                   cancelFunc, logFile, logWriter, stdoutFile, stdoutWriter,
                   outputWriter, outputReader, scriptFile, done, env,
                   openFiles, disk, flushed, synced, sent, canceledCtx, nCtx,
                   cycle, ret, panicked, tdFails>>

\* a variant of Capture: the drained bytes stored as they are
CaptureUntrimmed(e, out, reader, buf) ==
    IF reader # NilH /\ out # ""
    THEN [e EXCEPT ![out] = buf]
    ELSE e

\* node.go:127-133: the captured output goes to the process environment
Capture(e, out, reader, buf) ==
    IF reader # NilH /\ out # ""
    THEN [e EXCEPT ![out] = TrimSpace(buf)]
    ELSE e

\* node.go:127-135: close the pipe writer, drain the pipe, return n.Error
ExecFinish ==
    /\ pc = "finish" /\ ~panicked
    /\ env' = Capture(env, step.Output, outputReader, pipeBuf)
    /\ IF outputReader # NilH /\ step.Output # ""
       THEN /\ openFiles' = openFiles \ {outputWriter}
            /\ pipeBuf' = <<>>
       ELSE UNCHANGED <<openFiles, pipeBuf>>
    /\ ret' = Error
    /\ pc' = "executed"
    /\ UNCHANGED <<idVars, graphVars, cancelCalled, step, nodeVars, disk, flushed, synced, sinks, proc, sent,
                   canceledCtx, nCtx, cycle, lastStdout, lastExit, panicked, tdFails>>

\* the worker publishes the outcome of Execute as the node's status
Publish ==
    /\ pc = "executed" /\ ~panicked
    /\ IF Status = NodeStatus_Running
       THEN updateStatus(IF ret = Nil THEN NodeStatus_Success
                         ELSE NodeStatus_Error)
       ELSE UNCHANGED Status
    /\ pc' = "teardown"
    /\ UNCHANGED <<idVars, graphVars, cancelCalled, step, Command, Args, Error, RetryCount, DoneCount, cmd,
                   cancelFunc, logFile, logWriter, stdoutFile, stdoutWriter,
                   outputWriter, outputReader, scriptFile, done, osVars,
                   cycle, ret, lastStdout, lastExit, panicked, tdFails>>

\* ---------------------------------------------------------------- teardown
\* the flush and sync calls of teardown, in the order the code makes them
TeardownOps == <<"flushLog", "flushOut", "syncLog", "syncOut">>

\* the handle a teardown call acts on (NilH: the call is skipped)
OpTarget(op) ==
    CASE op = "flushLog" -> logWriter
      [] op = "flushOut" -> stdoutWriter
      [] op = "syncLog" -> logFile
      [] op = "syncOut" -> stdoutFile

OpError(op) == "E_" \o op

\* a variant of teardownErr: the error of the first failing call is kept
teardownErrFirst(fails, k) ==
    LET bad == { i \in 1..k : OpTarget(TeardownOps[i]) # NilH
                               /\ TeardownOps[i] \in fails }
    IN IF bad = {} THEN Nil
       ELSE OpError(TeardownOps[CHOOSE i \in bad : \A j \in bad : i <= j])

\* lastErr of teardown (node.go:278-293) after the first k calls, of which
\* the ones in fails return an error
RECURSIVE teardownErr(_, _)
teardownErr(fails, k) ==
    IF k = 0 THEN Nil
    ELSE LET op == TeardownOps[k]
         IN IF OpTarget(op) # NilH /\ op \in fails
            THEN OpError(op)
            ELSE teardownErr(fails, k - 1)

\* n.Error after teardown (node.go:298-300)
teardownRecord(prior, lastErr) ==
    IF lastErr # Nil THEN lastErr ELSE prior

\* a variant of teardownStatus: a failed flush or sync makes the node Error
teardownStatusError(st, lastErr) ==
    IF lastErr # Nil THEN NodeStatus_Error ELSE st

\* n.Status after teardown (node.go:273-302): no statement assigns it
teardownStatus(st, lastErr) == st

\* Node.teardown (node.go:273-302)
teardown ==
    /\ ~panicked
    /\ pc \in {"teardown", "torndown"}     \* torndown: a repeated call
    /\ IF done
       THEN /\ ret' = Nil
            /\ tdFails' = {}
            /\ UNCHANGED <<done, flushed, synced, openFiles, disk, Error,
                           Status>>
       ELSE \E fails \in SUBSET { TeardownOps[i] : i \in DOMAIN TeardownOps } :
            LET lastErr == teardownErr(fails, Len(TeardownOps))
            IN /\ \A op \in fails : OpTarget(op) # NilH
               /\ done' = TRUE
               /\ flushed' = flushed \cup ({logWriter, stdoutWriter} \ {NilH})
               /\ synced' = synced \cup ({logFile, stdoutFile} \ {NilH})
               /\ openFiles' = openFiles \ {logFile, stdoutFile}
               /\ disk' = IF scriptFile # NilH THEN disk \ {scriptFile}
                          ELSE disk
               /\ Error' = teardownRecord(Error, lastErr)
               /\ Status' = teardownStatus(Status, lastErr)
               /\ ret' = lastErr
               /\ tdFails' = fails
    /\ pc' = "torndown"
    /\ UNCHANGED <<idVars, graphVars, cancelCalled, step, Command, Args, RetryCount, DoneCount, cmd,
                   cancelFunc, logFile, logWriter, stdoutFile, stdoutWriter,
                   outputWriter, outputReader, scriptFile, env, sinks,
                   pipeBuf, proc, sent, canceledCtx, nCtx, cycle, lastStdout,
                   lastExit, panicked>>

\* ----------------------------------------------------- worker: retry/repeat
\* a variant of incRetryCount: the count is raised by two
incRetryCountTwice == RetryCount' = RetryCount + 2

\* Node.incRetryCount (node.go:304-308)
incRetryCount == RetryCount' = RetryCount + 1

\* Node.incDoneCount (node.go:310-314)
incDoneCount == DoneCount' = DoneCount + 1

\* a variant of RetryAllowed: one retry less than the limit
RetryAllowedStrict ==
    /\ Status = NodeStatus_Error
    /\ lastExit \in {"exit1", "killed"}
    /\ RetryCount + 1 < step.RetryLimit

\* the retry policy applies: the child failed and retries are left
RetryAllowed ==
    /\ Status = NodeStatus_Error
    /\ lastExit \in {"exit1", "killed"}
    /\ RetryCount < step.RetryLimit

\* retry policy: the node re-enters Running
Retry ==
    /\ pc = "torndown" /\ ~panicked
    /\ cycle < MaxCycles
    /\ RetryAllowed
    /\ incRetryCount
    /\ updateStatus(NodeStatus_Running)
    /\ pc' = "setup"
    /\ cancelCalled' = FALSE
    /\ tdFails' = {}
    /\ UNCHANGED <<idVars, graphVars, step, Command, Args, Error, DoneCount, cmd, cancelFunc,
                   logFile, logWriter, stdoutFile, stdoutWriter, outputWriter,
                   outputReader, scriptFile, done, osVars, cycle, ret,
                   lastStdout, lastExit, panicked>>

\* repeat policy: after a terminal status the node re-enters Running
Repeat ==
    /\ pc = "torndown" /\ ~panicked
    /\ cycle < MaxCycles
    /\ step.Repeat
    /\ Status \in {NodeStatus_Success, NodeStatus_Error}
    /\ ~RetryAllowed
    /\ incDoneCount
    /\ updateStatus(NodeStatus_Running)
    /\ pc' = "setup"
    /\ cancelCalled' = FALSE
    /\ tdFails' = {}
    /\ UNCHANGED <<idVars, graphVars, step, Command, Args, Error, RetryCount, cmd, cancelFunc,
                   logFile, logWriter, stdoutFile, stdoutWriter, outputWriter,
                   outputReader, scriptFile, done, osVars, cycle, ret,
                   lastStdout, lastExit, panicked>>

\* --------------------------------------------------------- signal / cancel
\* Node.signal (node.go:180-191) on a node with status st and command c:
\* the status it leaves, the kill(2) calls it makes, whether it dereferences
\* the nil n.cmd.Process
signalEffect(st, c) ==
    IF st = NodeStatus_Running /\ c # NoCmd /\ c.Process = 0
    THEN [status |-> st, kills |-> <<>>, panic |-> TRUE]
    ELSE [status |-> IF st = NodeStatus_Running THEN NodeStatus_Cancel ELSE st,
          kills |-> IF st = NodeStatus_Running /\ c # NoCmd
                    THEN <<0 - c.Process>> ELSE <<>>,
          panic |-> FALSE]

\* the signal bridge calls Node.signal
signal ==
    /\ ~panicked
    /\ LET r == signalEffect(Status, cmd)
       IN /\ panicked' = r.panic
          /\ Status' = r.status
          /\ sent' = sent \o r.kills
    /\ UNCHANGED <<idVars, graphVars, cancelCalled, step, Command, Args, Error, RetryCount, DoneCount, cmd,
                   cancelFunc, logFile, logWriter, stdoutFile, stdoutWriter,
                   outputWriter, outputReader, scriptFile, done, env,
                   openFiles, disk, flushed, synced, sinks, pipeBuf, proc,
                   canceledCtx, nCtx, pc, cycle, ret, lastStdout, lastExit, tdFails>>

\* a variant of cancelEffect: the trigger is fired only for a Running node
cancelEffectRunningOnly(st, cf) ==
    [status |-> IF st = NodeStatus_Running THEN NodeStatus_Cancel ELSE st,
     fired |-> IF st = NodeStatus_Running /\ cf # 0 THEN {cf} ELSE {}]

\* Node.cancel (node.go:193-204) on a node with status st and cancel
\* function cf: the status it leaves and the contexts it cancels
cancelEffect(st, cf) ==
    [status |-> IF st = NodeStatus_Running THEN NodeStatus_Cancel ELSE st,
     fired |-> IF cf # 0 THEN {cf} ELSE {}]

\* the signal bridge calls Node.cancel
cancel ==
    /\ ~panicked
    /\ LET r == cancelEffect(Status, cancelFunc)
       IN /\ Status' = r.status
          /\ canceledCtx' = canceledCtx \cup r.fired
    /\ cancelCalled' = (cancelCalled \/ Status = NodeStatus_Running)
    /\ UNCHANGED <<idVars, graphVars, step, Command, Args, Error, RetryCount, DoneCount, cmd,
                   cancelFunc, logFile, logWriter, stdoutFile, stdoutWriter,
                   outputWriter, outputReader, scriptFile, done, env,
                   openFiles, disk, flushed, synced, sinks, pipeBuf, proc,
                   sent, nCtx, pc, cycle, ret, lastStdout, lastExit, panicked, tdFails>>

\* ----------------------------------------------------------------- locking
\* the operations of a node that take n.mu for writing (Lock ... Unlock)
\* around what they do; the others touch the node with no lock held
HoldsLock ==
    [updateStatus |-> TRUE, signal |-> TRUE, cancel |-> TRUE,
     incRetryCount |-> TRUE, incDoneCount |-> TRUE,
     setup |-> FALSE, Execute |-> FALSE, teardown |-> FALSE]

\* the state n.mu protects: the NodeState fields and the child-process handle
Protected == <<Status, Error, RetryCount, DoneCount, cmd>>

\* a step of an operation that holds n.mu for writing
LockedStep ==
    \/ HoldsLock.updateStatus /\ (Start \/ HandleSetupError \/ Publish)
    \/ HoldsLock.incRetryCount /\ HoldsLock.updateStatus /\ Retry
    \/ HoldsLock.incDoneCount /\ HoldsLock.updateStatus /\ Repeat
    \/ HoldsLock.signal /\ signal
    \/ HoldsLock.cancel /\ cancel
    \/ HoldsLock.setup /\ setup
    \/ HoldsLock.Execute /\ (ExecPrepare \/ ExecSpawn \/ ExecWait \/ ExecFinish)
    \/ HoldsLock.teardown /\ teardown

\* ----------------------------------------------------------- specification
Next ==
    \/ Start
    \/ setup
    \/ HandleSetupError
    \/ ExecPrepare
    \/ ExecSpawn
    \/ ExecWait
    \/ ExecFinish
    \/ Publish
    \/ teardown
    \/ Retry
    \/ Repeat
    \/ signal
    \/ cancel

Spec == Init /\ [][Next]_vars

\* ---------------------------------------------------------------- node ids
\* Node.init (node.go:318-333) on node n, statement by statement; no lock
\* is taken and nextNodeId is a plain int
\* lines 319-321: a node that has an id is left as it is
InitCheck(n) ==
    /\ ipc[n] = "call"
    /\ ipc' = [ipc EXCEPT ![n] = IF id[n] # 0 THEN "done" ELSE "assign"]
    /\ UNCHANGED <<nextNodeId, id, reg, execVars, graphVars>>

\* line 322: n.id = nextNodeId
InitAssign(n) ==
    /\ ipc[n] = "assign"
    /\ reg' = [reg EXCEPT ![n] = nextNodeId]
    /\ id' = [id EXCEPT ![n] = nextNodeId]
    /\ ipc' = [ipc EXCEPT ![n] = "inc"]
    /\ UNCHANGED <<nextNodeId, execVars, graphVars>>

\* line 323, nextNodeId++: the counter is loaded again (or the value loaded
\* for line 322 is used: InitStore right after InitAssign)
InitReload(n) ==
    /\ ipc[n] = "inc"
    /\ reg' = [reg EXCEPT ![n] = nextNodeId]
    /\ ipc' = [ipc EXCEPT ![n] = "store"]
    /\ UNCHANGED <<nextNodeId, id, execVars, graphVars>>

\* line 323, nextNodeId++: the incremented value is stored
InitStore(n) ==
    /\ ipc[n] \in {"inc", "store"}
    /\ nextNodeId' = reg[n] + 1
    /\ ipc' = [ipc EXCEPT ![n] = "done"]
    /\ UNCHANGED <<id, reg, execVars, graphVars>>

\* init is called on a node once more
InitAgain(n) ==
    /\ ipc[n] = "done"
    /\ ipc' = [ipc EXCEPT ![n] = "call"]
    /\ UNCHANGED <<nextNodeId, id, reg, execVars, graphVars>>

IdInit ==
    /\ step = RestStep
    /\ InitNode
    /\ InitIds
    /\ dag = RestDag
    /\ InitGraph

IdNext ==
    \E n \in IdNodes :
        \/ InitCheck(n)
        \/ InitAssign(n)
        \/ InitReload(n)
        \/ InitStore(n)
        \/ InitAgain(n)

IdSpec == IdInit /\ [][IdNext]_vars

\* ---------------------------------------------------------- graph scheduler
\* the statuses a node ends with
Terminal == {NodeStatus_Success, NodeStatus_Error, NodeStatus_Cancel,
             NodeStatus_Skipped}

\* a variant of Ready: every dependency has been started
ReadyStarted(v) ==
    \A u \in dag.depends[v] : nstatus[u] # NodeStatus_None

\* every dependency of v has a terminal status
Ready(v) ==
    \A u \in dag.depends[v] : nstatus[u] \in Terminal

\* a variant of EdgeAllows: the continueOn of the dependent step decides
EdgeAllowsOwn(u, v) ==
    CASE nstatus[u] = NodeStatus_Success -> TRUE
      [] nstatus[u] \in {NodeStatus_Error, NodeStatus_Cancel} ->
            dag.continueOn[v].failure
      [] nstatus[u] = NodeStatus_Skipped -> dag.continueOn[v].skipped
      [] OTHER -> TRUE

\* the edge u -> v does not keep v from running: u succeeded, or u has the
\* continueOn that lets the DAG continue to the next step after u failed /
\* was skipped (an edge whose u has not ended decides nothing yet)
EdgeAllows(u, v) ==
    CASE nstatus[u] = NodeStatus_Success -> TRUE
      [] nstatus[u] \in {NodeStatus_Error, NodeStatus_Cancel} ->
            dag.continueOn[u].failure
      [] nstatus[u] = NodeStatus_Skipped -> dag.continueOn[u].skipped
      [] OTHER -> TRUE

\* the propagated decision of v is "may run"
MayRun(v) ==
    \A u \in dag.depends[v] : EdgeAllows(u, v)

RunningCount ==
    Cardinality({ v \in GraphNodes : nstatus[v] = NodeStatus_Running })

\* a variant of CanAdmit: one node more than maxActiveRuns
CanAdmitOneMore(n) == n <= dag.maxActiveRuns

\* maxActiveRuns: with n nodes running one more may be started
CanAdmit(n) == n < dag.maxActiveRuns

\* v can be taken from the ready set
Admissible(v) ==
    /\ ~runCanceled /\ ~crashed
    /\ nstatus[v] = NodeStatus_None
    /\ Ready(v)
    /\ MayRun(v)
    /\ CanAdmit(RunningCount)

\* the scheduler starts v: it is Running and its worker begins with setup
Admit(v) ==
    /\ Admissible(v)
    /\ nstatus' = [nstatus EXCEPT ![v] = NodeStatus_Running]
    /\ nphase' = [nphase EXCEPT ![v] = "setup"]
    /\ UNCHANGED <<dag, forced, runCanceled, atCancel, crashed, execVars,
                   idVars, finalVars>>

\* a precondition of v is not met: v is Skipped and is not run
PreconditionUnmet(v) ==
    /\ Admissible(v)
    /\ nstatus' = [nstatus EXCEPT ![v] = NodeStatus_Skipped]
    /\ UNCHANGED <<dag, nphase, forced, runCanceled, atCancel, crashed,
                   execVars, idVars,
                   finalVars>>

\* the propagation rule forces v to Skipped
Skip(v) ==
    /\ ~crashed
    /\ nstatus[v] = NodeStatus_None
    /\ Ready(v)
    /\ ~MayRun(v)
    /\ nstatus' = [nstatus EXCEPT ![v] = NodeStatus_Skipped]
    /\ forced' = forced \cup {v}
    /\ UNCHANGED <<dag, nphase, runCanceled, atCancel, crashed, execVars,
                   idVars, finalVars>>

\* the worker of v comes from setup to Execute (n.cmd is assigned, line 96)
\* and from there to the started child (cmd.Run, line 125)
Advance(v) ==
    /\ ~crashed
    /\ nphase[v] \in {"setup", "prepared"}
    /\ nphase' = [nphase EXCEPT
                     ![v] = IF nphase[v] = "setup" THEN "prepared"
                            ELSE "spawned"]
    /\ UNCHANGED <<dag, nstatus, forced, runCanceled, atCancel, crashed,
                   execVars, idVars,
                   finalVars>>

\* setup of v fails: the node terminates Error (as HandleSetupError)
FailSetup(v) ==
    /\ ~crashed
    /\ nphase[v] = "setup"
    /\ nphase' = [nphase EXCEPT ![v] = "exited"]
    /\ nstatus' = [nstatus EXCEPT ![v] = NodeStatus_Error]
    /\ UNCHANGED <<dag, forced, runCanceled, atCancel, crashed, execVars,
                   idVars, finalVars>>

\* the child of v cannot be started: a Running node is Error (as Publish)
FailSpawn(v) ==
    /\ ~crashed
    /\ nphase[v] = "prepared"
    /\ nphase' = [nphase EXCEPT ![v] = "exited"]
    /\ nstatus' = [nstatus EXCEPT
                      ![v] = IF nstatus[v] = NodeStatus_Running
                             THEN NodeStatus_Error ELSE nstatus[v]]
    /\ UNCHANGED <<dag, forced, runCanceled, atCancel, crashed, execVars,
                   idVars, finalVars>>

\* the child of v ends: a Running node is Success or Error
Finish(v) ==
    /\ ~crashed
    /\ nphase[v] = "spawned"
    /\ nphase' = [nphase EXCEPT ![v] = "exited"]
    /\ \E st \in {NodeStatus_Success, NodeStatus_Error} :
          nstatus' = [nstatus EXCEPT
                         ![v] = IF nstatus[v] = NodeStatus_Running
                                THEN st ELSE nstatus[v]]
    /\ UNCHANGED <<dag, forced, runCanceled, atCancel, crashed, execVars,
                   idVars, finalVars>>

\* n.cmd of v: nil before Execute, with a nil Process until the child is
\* started (node.go:96, 125)
CmdAt(v) ==
    CASE nphase[v] \in {"idle", "setup"} -> NoCmd
      [] nphase[v] = "prepared" -> [NoCmd EXCEPT !.ctx = v]
      [] OTHER -> [NoCmd EXCEPT !.ctx = v, !.Process = v]

\* external cancel: no node is admitted any more, Node.signal is called on
\* every node in declared order (a nil dereference ends the process there)
Cancel ==
    /\ ~runCanceled /\ ~crashed
    /\ LET eff == [v \in GraphNodes |-> signalEffect(nstatus[v], CmdAt(v))]
           bad == { v \in GraphNodes : eff[v].panic }
       IN /\ nstatus' = [v \in GraphNodes |->
                            IF \A b \in bad : v < b THEN eff[v].status
                            ELSE nstatus[v]]
          /\ crashed' = (bad # {})
    /\ runCanceled' = TRUE
    /\ atCancel' = { v \in GraphNodes : nstatus[v] = NodeStatus_Running }
    /\ UNCHANGED <<dag, nphase, forced, execVars, idVars,
                   finalVars>>

\* a variant of RunStatus: Error before Canceled
RunStatusErrorFirst(st) ==
    IF \E v \in DOMAIN st : st[v] = NodeStatus_Error THEN NodeStatus_Error
    ELSE IF \E v \in DOMAIN st : st[v] = NodeStatus_Cancel
    THEN NodeStatus_Cancel
    ELSE IF \A v \in DOMAIN st : st[v] = NodeStatus_Skipped
    THEN NodeStatus_Skipped
    ELSE NodeStatus_Success

\* run status aggregation over the node statuses st, in priority order
RunStatus(st) ==
    IF \E v \in DOMAIN st : st[v] = NodeStatus_Cancel THEN NodeStatus_Cancel
    ELSE IF \E v \in DOMAIN st : st[v] = NodeStatus_Error
    THEN NodeStatus_Error
    ELSE IF \A v \in DOMAIN st : st[v] = NodeStatus_Skipped
    THEN NodeStatus_Skipped
    ELSE NodeStatus_Success

\* no worker is in flight and no node can be started or skipped any more:
\* every node is terminal, or the run was cancelled and the rest stays None
RunOver ==
    /\ ~crashed
    /\ \A v \in GraphNodes :
          /\ nphase[v] \in {"idle", "exited"}
          /\ nstatus[v] # NodeStatus_Running
          /\ nstatus[v] = NodeStatus_None =>
                (runCanceled /\ ~(Ready(v) /\ ~MayRun(v)))

\* the handler fired for a run status ("" : none)
HandlerOn(rs) ==
    CASE rs = NodeStatus_Error -> "failure"
      [] rs = NodeStatus_Cancel -> "cancel"
      [] rs = NodeStatus_Success -> "success"
      [] OTHER -> ""

\* the run is over: the scheduler computes the run status
Finalize ==
    /\ hpc = "run"
    /\ RunOver
    /\ runStatus' = RunStatus(nstatus)
    /\ hpc' = IF HandlerOn(RunStatus(nstatus)) = "" THEN "exit" ELSE "handler"
    /\ UNCHANGED <<dag, nstatus, nphase, forced, runCanceled, atCancel,
                   crashed, hresult, execVars, idVars>>

\* the failure, cancel or success handler runs through the executor and
\* ends Success or Error
StatusHandler ==
    /\ hpc = "handler"
    /\ \E st \in {NodeStatus_Success, NodeStatus_Error} :
          hresult' = Append(hresult, <<HandlerOn(runStatus), st>>)
    /\ hpc' = "exit"
    /\ UNCHANGED <<dag, nstatus, nphase, forced, runCanceled, atCancel,
                   crashed, runStatus, execVars, idVars>>

\* the exit handler runs, always and last
ExitHandler ==
    /\ hpc = "exit"
    /\ \E st \in {NodeStatus_Success, NodeStatus_Error} :
          hresult' = Append(hresult, <<"exit", st>>)
    /\ hpc' = "done"
    /\ UNCHANGED <<dag, nstatus, nphase, forced, runCanceled, atCancel,
                   crashed, runStatus, execVars, idVars>>

GraphInit ==
    /\ step = RestStep
    /\ InitNode
    /\ InitIds
    /\ dag \in Dags
    /\ InitGraph

GraphNext ==
    \/ \E v \in GraphNodes :
        \/ Admit(v)
        \/ PreconditionUnmet(v)
        \/ Skip(v)
        \/ Advance(v)
        \/ FailSetup(v)
        \/ FailSpawn(v)
        \/ Finish(v)
    \/ Cancel
    \/ Finalize
    \/ StatusHandler
    \/ ExitHandler

GraphSpec == GraphInit /\ [][GraphNext]_vars

TypeOK == pc \in {"idle", "setup", "setupfailed", "exec", "spawn", "wait",
                  "finish", "executed", "teardown", "torndown"}

\* ------------------------------------------------------------------ claims
\* a step of teardown()
TeardownStep == pc' = "torndown"

\* C1: signal on a Running node sends the signal to the child's process
\* group and makes the node Canceled; on any other status it sends nothing
\* and leaves the status; a second call right after the first does nothing.
C1_SignalContract ==
    LET first == signalEffect(Status, cmd)
        second == signalEffect(first.status, cmd)
    IN /\ Status = NodeStatus_Running =>
            /\ ~first.panic
            /\ first.status = NodeStatus_Cancel
            /\ proc.pid > 0
            /\ first.kills = <<0 - proc.pid>>
       /\ Status # NodeStatus_Running =>
            /\ first.status = Status
            /\ first.kills = <<>>
       /\ ~first.panic =>
            (second.kills = <<>> /\ second.status = first.status)

\* C2: cancel on a Running node makes it Canceled and fires the cancel
\* trigger of the node's spawn context; any other status is kept.
C2_CancelContract ==
    LET r == cancelEffect(Status, cancelFunc)
    IN /\ Status = NodeStatus_Running =>
            /\ r.status = NodeStatus_Cancel
            /\ nCtx > 0
            /\ r.fired = {nCtx}
       /\ Status # NodeStatus_Running => r.status = Status

\* the handles of the current cycle are released: writers flushed, files
\* synced and closed, the script file removed
Released ==
    /\ \A w \in {logWriter, stdoutWriter} \ {NilH} : w \in flushed
    /\ \A f \in {logFile, stdoutFile} \ {NilH} :
          f \in synced /\ f \notin openFiles
    /\ scriptFile # NilH => scriptFile \notin disk

\* C3: in every cycle the first teardown call releases the cycle's handles,
\* and a repeated call in the same cycle changes nothing.
C3_TeardownOncePerCycle ==
    [][TeardownStep =>
        /\ pc = "teardown" => Released'
        /\ pc = "torndown" =>
              UNCHANGED <<nodeVars, openFiles, disk, flushed, synced>>]_vars

\* C4: after setup, Execute and teardown have run, nothing the node opened
\* is open or present any more, whatever the outcome of the child.
C4_ResourceRelease ==
    (pc = "torndown" /\ cycle = 1 /\ lastExit \notin {Nil, "nosetup"})
        => (openFiles = {} /\ disk = {})

\* C5: teardown leaves a last_error that was set before it as it was.
C5_TeardownKeepsError ==
    [][(TeardownStep /\ Error # Nil) => Error' = Error]_vars

\* the first and the last call of teardown, in call order, among a set
OpIndex(op) == CHOOSE i \in DOMAIN TeardownOps : TeardownOps[i] = op
FirstOp(ops) == CHOOSE op \in ops : \A o \in ops : OpIndex(op) <= OpIndex(o)
LastOp(ops) == CHOOSE op \in ops : \A o \in ops : OpIndex(op) >= OpIndex(o)

\* C6 as stated: when flush/sync calls fail in a teardown, the error it
\* records and returns is the one of the first failing call.
C6_FirstErrorRecorded ==
    tdFails # {} =>
        (ret = OpError(FirstOp(tdFails)) /\ Error = OpError(FirstOp(tdFails)))

\* C6 amended: when flush/sync calls fail in a teardown, the error it
\* records and returns is the one of the last failing call.
C6_LastErrorRecorded ==
    tdFails # {} =>
        (ret = OpError(LastOp(tdFails)) /\ Error = OpError(LastOp(tdFails)))

C6_Witness ==
    /\ pc = "torndown"
    /\ Cardinality(tdFails) >= 2
    /\ FirstOp(tdFails) = "flushLog"
    /\ ret = "E_syncOut"

\* C7: a step with output variable X whose child exits normally has put the
\* child's stdout, white space stripped, into the process environment under X
\* when Execute returns, so when Success is published; the next spawn reads
\* that value from the environment.
C7_CaptureVisible ==
    step.Output # "" =>
        /\ (pc = "executed" /\ lastExit = "exit0")
              => env[step.Output] = TrimSpace(lastStdout)
        /\ Status = NodeStatus_Success
              => env[step.Output] = TrimSpace(lastStdout)
        /\ (pc = "spawn" /\ lastExit = "exit0") =>
              /\ env[step.Output] = TrimSpace(lastStdout)
              /\ step.CmdWithArgs # <<>> =>
                    cmd.args = EffectiveArgs(
                        Fields(TrimSpace(lastStdout), <<>>, <<>>), scriptFile)

C7_Witness ==
    /\ pc = "spawn" /\ cycle = 2 /\ DoneCount = 1
    /\ lastExit = "exit0"
    /\ step.Output = "X" /\ step.CmdWithArgs # <<>>
    /\ lastStdout = <<" ", "a", "\n">>
    /\ cmd.args = << <<"a">> >>

\* C8: the environment of the child holds every binding of the environment
\* of the parent process, whether or not the step declares variables.
C8_ChildInheritsParentEnv ==
    pc = "wait" =>
        \A n \in DOMAIN env : env[n] # Unset => <<n, env[n]>> \in proc.env

\* the child of the last Execute ran and ended
ChildEnded == lastExit \in {"exit0", "exit1", "killed"}

\* C9: the child's stdout reaches the log writer, the redirect writer when
\* the step has one and the capture pipe when capture is requested; its
\* stderr reaches the log writer and neither the redirect file nor the pipe.
C9_OutputRouting ==
    ChildEnded =>
        /\ "stdout" \in sinks["log"]
        /\ "stderr" \in sinks["log"]
        /\ step.Stdout => "stdout" \in sinks["redirect"]
        /\ step.Output # "" => "stdout" \in sinks["pipe"]
        /\ (step.Output # "" /\ pc = "finish") => pipeBuf = lastStdout
        /\ "stderr" \notin sinks["redirect"]
        /\ "stderr" \notin sinks["pipe"]

C9_Witness ==
    /\ pc = "finish" /\ lastExit = "exit0"
    /\ step.Stdout /\ step.Output = "X"
    /\ sinks["redirect"] = {"stdout"}
    /\ pipeBuf = <<"a", " ", "b">>

\* C10: at every Execute the command and the args are the split of
\* cmd_with_args when it is set and the declared ones otherwise, the path of
\* the script file is the one extra, final argument, and the step's own args
\* stay the declared (or split) ones.
C10_EffectiveCommand ==
    pc = "spawn" =>
        LET sp == SplitCommand(ExpandEnv(step.CmdWithArgs, env))
            command == IF step.CmdWithArgs # <<>> THEN sp.command
                       ELSE step.Command
            base == IF step.CmdWithArgs # <<>> THEN sp.args ELSE step.Args
        IN /\ cmd.path = command
           /\ cmd.args = IF step.Script THEN Append(base, H("script", cycle))
                         ELSE base
           /\ Command = command
           /\ Args = base

C10_Witness ==
    /\ pc = "spawn" /\ cycle = 2
    /\ step.Script /\ step.CmdWithArgs = <<>>
    /\ cmd.args = << <<"a">>, H("script", 2) >>

\* C11: every write to the NodeState fields or to the child-process handle
\* is made by an operation that holds the node's write lock, so none of
\* them runs beside a reader that holds the lock.
C11_LockDiscipline ==
    [][Protected' # Protected => LockedStep]_vars

\* C12: when init has run on every node, in whatever interleaving of the
\* workers, every node has a non-zero id and no two nodes have the same.
C12_UniqueIds ==
    (\A n \in IdNodes : ipc[n] = "done") =>
        \A n, m \in IdNodes :
            /\ id[n] # 0
            /\ n # m => id[n] # id[m]

\* a step of the retry policy
RetryStep == pc = "torndown" /\ pc' = "setup" /\ RetryAllowed

C14_SetupFailure ==
    [][/\ (pc = "setup" /\ pc' = "setupfailed") =>
            /\ ret' # Nil
            /\ Error' = ret'
            /\ ret' = "E_setupLog" =>
                  UNCHANGED <<stdoutFile, stdoutWriter, scriptFile, openFiles,
                              disk>>
            /\ ret' = "E_setupStdout" =>
                  /\ logFile' = H("log", cycle')
                  /\ logFile' \in openFiles'
                  /\ UNCHANGED <<scriptFile, disk>>
            /\ ret' = "E_script" =>
                  /\ logFile' = H("log", cycle')
                  /\ step.Stdout => stdoutFile' = H("redirect", cycle')
       /\ (pc = "teardown" /\ lastExit = "nosetup" /\ TeardownStep) =>
            /\ logFile \notin openFiles'
            /\ stdoutFile \notin openFiles'
            /\ logWriter # NilH => logWriter \in flushed'
      ]_vars

\* C15: teardown never changes the status of the node, whether or not one
\* of its flush or sync calls fails.
C15_TeardownKeepsStatus ==
    [][TeardownStep => Status' = Status]_vars

C15_Witness ==
    /\ pc = "torndown"
    /\ tdFails # {}
    /\ Status = NodeStatus_Success
    /\ Error = ret /\ ret # Nil

\* C17: a node whose child fails every time it is run, in a run without
\* cancel, has been started limit + 1 times when the run is over, its status
\* is Error and its retry count is the limit.
C17_RetryBound ==
    (/\ pc = "torndown" /\ DoneCount = 0
     /\ lastExit = "exit1" /\ ~RetryAllowed
     /\ sent = <<>> /\ canceledCtx = {} /\ Status # NodeStatus_Cancel)
    => /\ Status = NodeStatus_Error
       /\ RetryCount = step.RetryLimit
       /\ proc.pid = step.RetryLimit + 1

C17_Witness ==
    /\ pc = "torndown" /\ lastExit = "exit1"
    /\ step.RetryLimit = 1
    /\ Status = NodeStatus_Error
    /\ RetryCount = 1
    /\ proc.pid = 2 /\ cycle = 2

\* C16: once an external cancel is issued no node goes from None to
\* Running, and every node that was Running when it was issued is Canceled.
C16_CancelPreemption ==
    [][/\ runCanceled =>
            \A v \in GraphNodes :
                ~(nstatus[v] = NodeStatus_None
                  /\ nstatus'[v] = NodeStatus_Running)
       /\ runCanceled' =>
            \A v \in atCancel' : nstatus'[v] = NodeStatus_Cancel]_vars

\* C18: a node becomes Running only when every one of its dependencies
\* has a terminal status.
C18_TopologicalOrder ==
    [][\A v \in GraphNodes :
          (nstatus[v] # NodeStatus_Running /\ nstatus'[v] = NodeStatus_Running)
              => \A u \in dag.depends[v] : nstatus[u] \in Terminal]_vars

C18_Witness ==
    \E v \in GraphNodes :
        /\ Cardinality(dag.depends[v]) >= 2
        /\ nstatus[v] = NodeStatus_Running
        /\ \A u \in dag.depends[v] : nstatus[u] = NodeStatus_Success

\* C19: in every state of a run at most maxActiveRuns nodes are Running.
C19_ParallelismCap ==
    Cardinality({ v \in GraphNodes : nstatus[v] = NodeStatus_Running })
        <= dag.maxActiveRuns

C19_Witness ==
    /\ ~runCanceled /\ ~crashed
    /\ \E v, w \in GraphNodes :
          /\ dag.depends[v] # {} /\ dag.depends[w] = dag.depends[v]
          /\ nstatus[v] = NodeStatus_Running
          /\ nstatus[w] = NodeStatus_None
          /\ Ready(w) /\ MayRun(w)
          /\ dag.maxActiveRuns = 1

C21_RunStatusAggregation ==
    /\ hpc # "run" =>
          runStatus =
             (IF \E v \in GraphNodes : nstatus[v] = NodeStatus_Cancel
              THEN NodeStatus_Cancel
              ELSE IF \E v \in GraphNodes : nstatus[v] = NodeStatus_Error
              THEN NodeStatus_Error
              ELSE IF \A v \in GraphNodes : nstatus[v] = NodeStatus_Skipped
              THEN NodeStatus_Skipped
              ELSE NodeStatus_Success)
    /\ hpc = "run" => runStatus = NodeStatus_None

C21_Witness ==
    /\ hpc = "done"
    /\ runStatus = NodeStatus_Cancel
    /\ \E v \in GraphNodes : nstatus[v] = NodeStatus_Error
    /\ hresult = << <<"cancel", NodeStatus_Error>>,
                    <<"exit", NodeStatus_Success>> >>

\* C22: when cancel() was called on the node after it became Running,
\* Execute does not wait for the natural exit of the child: the child is not
\* started, or the context it runs under is cancelled.
C22_CancelNotLost ==
    (cancelCalled /\ pc = "wait") => proc.ctx \in canceledCtx

\* C23: signal is safe whenever the node is Running: wherever the worker
\* is, also between the creation of the command and the start of the child,
\* signal does not use the handle of a process that does not exist yet.
C23_SignalSafeWhileRunning ==
    Status = NodeStatus_Running => ~signalEffect(Status, cmd).panic

\* signal() has made the node Canceled and has sent its signal to a
\* process group; cancel() has not been called since the node became Running
GracefullySignalled ==
    /\ Status = NodeStatus_Cancel
    /\ ~cancelCalled
    /\ sent # <<>>

C25_EnvOnlyOnSuccess ==
    [][(pc = "finish" /\ pc' = "executed" /\ lastExit # "exit0")
            => env' = env]_vars

====
